---- MODULE Spec2Model ----
(***************************************************************************)
(* Model of the Wikipedia page-view pipeline.                              *)
(*                                                                         *)
(* Spec: the ingest loop (src/src/ingest/page_views.py) with the persisted *)
(* checkpoint, the raw snapshot store, the upstream archive and the        *)
(* runners executing run().                                                *)
(* TransformSpec: a transform run (src/src/transforms/page_views) over the *)
(* stores the ingest loop can leave.                                       *)
(* AssetSpec: process_page_views() of the legacy asset                     *)
(* (src/assets/page_views/page_views.py).                                  *)
(* LiveSpec: run() invoked again after every return of True, with          *)
(* fairness, every date having a dump with rows.                           *)
(* ConcurrentSpec: two invocations of run() over one store, no lock.       *)
(* OrderSpec: the functions of the transforms over the snapshots in any    *)
(* order of the files and of the rows.                                     *)
(*                                                                         *)
(* Text is a sequence of one-character strings, so that formatting and     *)
(* parsing of dates and counts are real conversions.  A datetime is the    *)
(* tuple <<year, month, day>>; the time of day is not represented: every   *)
(* datetime run() compares is either a midnight (strptime) or 23:59:59     *)
(* (end_date), so the comparisons depend on the calendar date only.        *)
(***************************************************************************)
EXTENDS Integers, Sequences, FiniteSets, TLC

(***************************************************************************)
(* Bounds of the model.                                                    *)
(***************************************************************************)
\* number of midnights that may pass after the initial day
MaxDay == 3

\* the runners that may execute run(); Spec uses the first one only
Procs == {1}

\* largest TOP_K_PER_DAY of a transform run: 10,000 in the source, here of
\* the size of the tables of the model so that Pass 1 cuts some of them
MaxTopK == 2

(***************************************************************************)
(* Characters, numbers and the calendar (Python str / int / datetime).     *)
(***************************************************************************)
DigitChars == <<"0", "1", "2", "3", "4", "5", "6", "7", "8", "9">>

IsDigit(c) == \E i \in 1..10 : DigitChars[i] = c

DigitVal(c) == (CHOOSE i \in 1..10 : DigitChars[i] = c) - 1

\* f"{n:02d}" and the %m, %d fields of strftime
Fmt2(n) == <<DigitChars[((n \div 10) % 10) + 1], DigitChars[(n % 10) + 1]>>

\* f"{n}" for a four-digit year and the %Y field of strftime
Fmt4(n) == Fmt2(n \div 100) \o Fmt2(n % 100)

RECURSIVE ParseNat(_)
\* int(s) for a text of digits
ParseNat(s) ==
    IF Len(s) = 0 THEN 0
    ELSE 10 * ParseNat(SubSeq(s, 1, Len(s) - 1)) + DigitVal(s[Len(s)])

\* the digits of a numeral, its sign taken off
Unsigned(s) == IF Len(s) > 0 /\ s[1] \in {"-", "+"} THEN Tail(s) ELSE s

\* int(s) raises ValueError unless s is a non-empty text of digits after an
\* optional sign (a field has no spaces; digit grouping is not modelled)
IsInt(s) ==
    Len(Unsigned(s)) > 0 /\ \A i \in 1..Len(Unsigned(s)) : IsDigit(Unsigned(s)[i])

\* int(s)
ParseInt(s) ==
    IF Len(s) > 0 /\ s[1] = "-" THEN 0 - ParseNat(Unsigned(s))
    ELSE ParseNat(Unsigned(s))

IsLeap(y) == (y % 4 = 0 /\ y % 100 # 0) \/ y % 400 = 0

DaysInMonth(y, m) ==
    IF m = 2 THEN (IF IsLeap(y) THEN 29 ELSE 28)
    ELSE IF m \in {4, 6, 9, 11} THEN 30 ELSE 31

\* dt + timedelta(days=1)
AddDay(dt) ==
    IF dt[3] < DaysInMonth(dt[1], dt[2]) THEN <<dt[1], dt[2], dt[3] + 1>>
    ELSE IF dt[2] < 12 THEN <<dt[1], dt[2] + 1, 1>>
    ELSE <<dt[1] + 1, 1, 1>>

\* dt - timedelta(days=1)
SubDay(dt) ==
    IF dt[3] > 1 THEN <<dt[1], dt[2], dt[3] - 1>>
    ELSE IF dt[2] > 1 THEN <<dt[1], dt[2] - 1, DaysInMonth(dt[1], dt[2] - 1)>>
    ELSE <<dt[1] - 1, 12, 31>>

\* a < b on datetimes
DateLT(a, b) ==
    \/ a[1] < b[1]
    \/ a[1] = b[1] /\ a[2] < b[2]
    \/ a[1] = b[1] /\ a[2] = b[2] /\ a[3] < b[3]

DateLE(a, b) == a = b \/ DateLT(a, b)

\* dt.strftime('%Y-%m-%d')
StrfDate(dt) == Fmt4(dt[1]) \o <<"-">> \o Fmt2(dt[2]) \o <<"-">> \o Fmt2(dt[3])

\* datetime.strptime(s, '%Y-%m-%d')
StrpDate(s) ==
    <<ParseNat(SubSeq(s, 1, 4)), ParseNat(SubSeq(s, 6, 7)), ParseNat(SubSeq(s, 9, 10))>>

\* variant: the name carries the year and the month only
SnapshotName_YearMonth(dt) ==
    <<"p", "a", "g", "e", "_", "v", "i", "e", "w", "s", "_">>
        \o Fmt4(dt[1]) \o Fmt2(dt[2])

\* f"page_views_{date.strftime('%Y%m%d')}"
SnapshotName(dt) ==
    <<"p", "a", "g", "e", "_", "v", "i", "e", "w", "s", "_">>
        \o Fmt4(dt[1]) \o Fmt2(dt[2]) \o Fmt2(dt[3])

RECURSIVE AddDays(_, _)
AddDays(dt, n) == IF n = 0 THEN dt ELSE AddDays(AddDay(dt), n - 1)

(***************************************************************************)
(* Program constants and configuration.                                    *)
(***************************************************************************)
GH_ACTIONS_MAX_RUN_SECONDS == 20880

\* os.environ.get('DATA_COLLECTION_START_DATE', '2016-01-01'); the deployment
\* modelled here sets it two days before a month boundary
DATA_COLLECTION_START_DATE == <<"2", "0", "1", "6", "-", "0", "1", "-", "3", "0">>

\* the state document of a pipeline that has never saved: state.get() is None
NoState == <<>>

NoDate == <<0, 0, 0>>

\* the day the deployment starts on, and the dates that can become "yesterday"
FirstDay == StrpDate(DATA_COLLECTION_START_DATE)

AllDates == {AddDays(FirstDay, i) : i \in 0..(MaxDay - 1)}

LastDay == AddDays(FirstDay, MaxDay)

\* time passes in steps of half the budget
TickStep == GH_ACTIONS_MAX_RUN_SECONDS \div 2

(***************************************************************************)
(* The upstream archive: what get(url) answers for a date.  A line is the  *)
(* list of its whitespace-separated fields; the view count stays text      *)
(* until int() converts it.                                                *)
(***************************************************************************)
Line(project, entity, page_id, view_count) ==
    <<project, entity, page_id, "-", view_count, "-">>

\* the files the archive publishes in this model; view counts of published
\* dumps are numeric, so "badcount" (a count int() rejects) is a file that
\* ParseLines can be given but that no date is served
ArchiveKeys == {"absent", "norows", "v1", "v2"}

Archive(key) ==
    CASE key = "absent" -> [status |-> 404, lines |-> <<>>]
      [] key = "norows" ->
            [status |-> 200,
             lines |-> << Line("de.wikipedia", "eA", "pageA", <<"3">>),
                          Line("en.wikipedia", "eN", "null", <<"4">>) >>]
      [] key = "v1" ->
            [status |-> 200,
             lines |-> << Line("en.wikipedia", "eA", "pageA", <<"5", "0">>),
                          <<"en.wikipedia", "eC", "pageC", "-", <<"9">>>>,
                          Line("en.wikipedia", "eN", "null", <<"7">>),
                          Line("en.wikipedia", "eB", "pageB", <<"5">>) >>]
      [] key = "v2" ->
            [status |-> 200,
             lines |-> << Line("en.wikipedia", "eA", "pageA", <<"5", "1">>),
                          Line("nl.wikipedia", "eB", "pageB", <<"8">>) >>]
      [] key = "v3" ->
            [status |-> 200,
             lines |-> << Line("en.wikipedia", "eB", "pageB", <<"7">>),
                          Line("en.wikipedia", "eA2", "pageA", <<"7">>),
                          Line("en.wikipedia", "eC", "pageC", <<"0">>) >>]
      [] key = "v4" ->
            [status |-> 200,
             lines |-> << Line("en.wikipedia", "eC", "pageC", <<"0">>),
                          Line("en.wikipedia", "eB", "pageB", <<"2">>) >>]
      [] key = "badcount" ->
            [status |-> 200,
             lines |-> << Line("en.wikipedia", "eA", "pageA", <<"5", "x">>) >>]

RECURSIVE ParseLines(_, _)
\* the loop over the lines of the dump: the rows kept so far, or ValueError
\* from int(view_count)
ParseLines(lines, date_str) ==
    IF Len(lines) = 0 THEN [error |-> FALSE, rows |-> <<>>]
    ELSE LET before == ParseLines(SubSeq(lines, 1, Len(lines) - 1), date_str)
             split == lines[Len(lines)]
         IN  IF before.error THEN before
             ELSE IF Len(split) # 6 THEN before
             ELSE IF split[1] = "en.wikipedia" /\ split[3] # "null"
                  THEN IF IsInt(split[5])
                       THEN [error |-> FALSE,
                             rows |-> Append(before.rows,
                                         [date |-> date_str,
                                          entity |-> split[2],
                                          page_id |-> split[3],
                                          views |-> ParseInt(split[5])])]
                       ELSE [error |-> TRUE, rows |-> <<>>]
                  ELSE before

\* what fetch_pageviews_for_date does with the response for `date`, up to the
\* call of save_raw_parquet: "raise" (an error that is not a ValueError),
\* "ValueError", or "table" with the rows to write
FetchOutcome(key, date) ==
    LET response == Archive(key)
        parsed == ParseLines(response.lines, StrfDate(date))
    IN  IF response.status # 200
        THEN [kind |-> "raise", error |-> "HTTPError", rows |-> <<>>]
        ELSE IF parsed.error
        THEN [kind |-> "ValueError", error |-> "invalid literal for int()", rows |-> <<>>]
        ELSE IF Len(parsed.rows) = 0
        THEN [kind |-> "ValueError", error |-> "No data found", rows |-> <<>>]
        ELSE [kind |-> "table", error |-> "", rows |-> parsed.rows]

\* variant: the rows are added to the object of that name
save_raw_parquet_Appending(store, table, name) ==
    [n \in (DOMAIN store) \cup {name} |->
        IF n # name THEN store[n]
        ELSE IF name \in DOMAIN store THEN store[name] \o table ELSE table]

\* save_raw_parquet(table, name): the object called `name` is written,
\* replacing the one of that name if there is one
save_raw_parquet(store, table, name) ==
    [n \in (DOMAIN store) \cup {name} |-> IF n = name THEN table ELSE store[n]]

(***************************************************************************)
(* The transforms (src/src/transforms/page_views/main.py).  A table is the *)
(* sequence of its rows; the functions take the store they read from and   *)
(* the value of TOP_K_PER_DAY as arguments.                                *)
(***************************************************************************)
\* the characters of object names, in code point order
Chars == <<"-", "/", "0", "1", "2", "3", "4", "5", "6", "7", "8", "9", "_",
           "a", "b", "c", "d", "e", "f", "g", "h", "i", "j", "k", "l", "m",
           "n", "o", "p", "q", "r", "s", "t", "u", "v", "w", "x", "y", "z">>

\* ord(c)
Ord(c) == CHOOSE i \in 1..Len(Chars) : Chars[i] = c

\* a < b on str
StrLT(a, b) ==
    \/ \E i \in 1..Len(a) :
          /\ i <= Len(b)
          /\ SubSeq(a, 1, i - 1) = SubSeq(b, 1, i - 1)
          /\ Ord(a[i]) < Ord(b[i])
    \/ Len(a) < Len(b) /\ a = SubSeq(b, 1, Len(a))

RECURSIVE Sorted(_)
\* sorted(names)
Sorted(names) ==
    IF names = {} THEN <<>>
    ELSE LET least == CHOOSE x \in names : \A y \in names \ {x} : StrLT(x, y)
         IN  <<least>> \o Sorted(names \ {least})

RECURSIVE Reversed(_)
Reversed(s) == IF Len(s) = 0 THEN <<>> ELSE Append(Reversed(Tail(s)), Head(s))

\* raw_dir.glob("page_views_*.parquet"): the objects of the raw directory
\* itself whose name starts with page_views_
Glob(store) ==
    {n \in DOMAIN store :
        /\ Len(n) >= 11
        /\ SubSeq(n, 1, 11) = <<"p", "a", "g", "e", "_", "v", "i", "e", "w", "s", "_">>
        /\ \A i \in 1..Len(n) : n[i] # "/"}

\* variant: the files come in the order opposite to that of their names
get_raw_parquet_files_Unsorted(store) == Reversed(Sorted(Glob(store)))

\* lines 18-22
get_raw_parquet_files(store) == Sorted(Glob(store))

RECURSIVE sort_indices(_, _)
\* pc.sort_indices(table, sort_keys=[("views", "descending")]) over the first
\* n rows: a stable sort, rows of equal views keep their order
sort_indices(table, n) ==
    IF n = 0 THEN <<>>
    ELSE LET before == sort_indices(table, n - 1)
             smaller == {p \in 1..Len(before) :
                            table[before[p]].views < table[n].views}
             at == IF smaller = {} THEN Len(before) + 1
                   ELSE CHOOSE p \in smaller : \A q \in smaller : p <= q
         IN  SubSeq(before, 1, at - 1) \o <<n>> \o SubSeq(before, at, Len(before))

\* variant: the whole table is taken
top_k_page_ids_All(table, k) == {table[i].page_id : i \in 1..Len(table)}

\* lines 33-36: the page ids of pc.take(table, indices[:TOP_K_PER_DAY])
top_k_page_ids(table, k) ==
    LET indices == sort_indices(table, Len(table))
        first == SubSeq(indices, 1, IF k < Len(indices) THEN k ELSE Len(indices))
    IN  {table[first[i]].page_id : i \in 1..Len(first)}

\* variant: the set is replaced by the page ids of each file in turn
build_popular_pages_set_LastOnly(files, store, k) ==
    IF Len(files) = 0 THEN {}
    ELSE top_k_page_ids(store[files[Len(files)]], k)

RECURSIVE build_popular_pages_set(_, _, _)
\* lines 25-44
build_popular_pages_set(files, store, k) ==
    IF Len(files) = 0 THEN {}
    ELSE build_popular_pages_set(SubSeq(files, 1, Len(files) - 1), store, k)
            \cup top_k_page_ids(store[files[Len(files)]], k)

\* variant: the rows outside the set are kept
is_in_Inverted(row, popular_pages) == row.page_id \notin popular_pages

\* line 56: pc.is_in(page_ids, value_set=popular_pages), for one row
is_in(row, popular_pages) == row.page_id \in popular_pages

RECURSIVE transform_popular_pages(_, _, _)
\* lines 47-75: the filtered tables, concatenated in the order of the files;
\* a table without rows adds nothing, and the result without any table is
\* the empty table
transform_popular_pages(files, store, popular_pages) ==
    IF Len(files) = 0 THEN <<>>
    ELSE LET Keep(row) == is_in(row, popular_pages)
         IN  transform_popular_pages(SubSeq(files, 1, Len(files) - 1), store,
                                     popular_pages)
                \o SelectSeq(store[files[Len(files)]], Keep)

\* variant: the month is the year
month_of_Year(date) == SubSeq(date, 1, 4)

\* line 92: date[:7]
month_of(date) == SubSeq(date, 1, 7)

\* variant: the views of the key are replaced by those of the row
accumulate_Overwriting(monthly_data, row) ==
    LET month == month_of(row.date)
        at == {i \in 1..Len(monthly_data) :
                  monthly_data[i].month = month /\ monthly_data[i].page_id = row.page_id}
    IN  IF at = {}
        THEN Append(monthly_data,
                    [month |-> month, page_id |-> row.page_id,
                     entity |-> row.entity, views |-> row.views])
        ELSE [i \in 1..Len(monthly_data) |->
                 IF i \in at
                 THEN [monthly_data[i] EXCEPT !.entity = row.entity,
                                              !.views = row.views]
                 ELSE monthly_data[i]]

\* lines 91-95: one row enters the accumulator, a dict in insertion order
accumulate(monthly_data, row) ==
    LET month == month_of(row.date)
        at == {i \in 1..Len(monthly_data) :
                  monthly_data[i].month = month /\ monthly_data[i].page_id = row.page_id}
    IN  IF at = {}
        THEN Append(monthly_data,
                    [month |-> month, page_id |-> row.page_id,
                     entity |-> row.entity, views |-> row.views])
        ELSE [i \in 1..Len(monthly_data) |->
                 IF i \in at
                 THEN [monthly_data[i] EXCEPT !.entity = row.entity,
                                              !.views = @ + row.views]
                 ELSE monthly_data[i]]

RECURSIVE accumulate_rows(_, _)
accumulate_rows(monthly_data, rows) ==
    IF Len(rows) = 0 THEN monthly_data
    ELSE accumulate_rows(accumulate(monthly_data, Head(rows)), Tail(rows))

RECURSIVE accumulate_files(_, _, _)
accumulate_files(monthly_data, files, store) ==
    IF Len(files) = 0 THEN monthly_data
    ELSE accumulate_files(accumulate_rows(monthly_data, store[Head(files)]),
                          Tail(files), store)

\* lines 78-120: one row per entry of the accumulator
transform_monthly_views(files, store) == accumulate_files(<<>>, files, store)

(***************************************************************************)
(* State.                                                                  *)
(***************************************************************************)
VARIABLES
    today,                \* datetime.now(), as a calendar date
    upstream,             \* date -> key of the archive file published for it
    raw,                  \* snapshot store: object name -> table (rows)
    saved_state,          \* persisted last_processed_date, NoState if none
    pc,                   \* runner -> "idle" | "loop" | "fetching" | "written"
    last_processed_date,  \* runner -> checkpoint read by load_state
    start_date,           \* runner -> first date of the range
    end_date,             \* runner -> yesterday, as read at the start
    current_date,         \* runner -> date of the iteration
    days_processed,       \* runner -> dates saved in this invocation
    elapsed,              \* runner -> time.time() - start_time, capped
    result,               \* runner -> how the last invocation ended
    report,               \* runner -> the stop line the last invocation printed
    attempted,            \* runner -> dates fetched in this invocation
    skipped,              \* date -> the ValueError its last attempt logged, for
                          \* the dates whose last attempt ended in the except clause
    crash_date,           \* date written but not checkpointed when the last
                          \* invocation died, NoDate if it ended otherwise
    failed_date,          \* date during which the last invocation raised, NoDate
                          \* if it ended otherwise or a new one has started
    TOP_K_PER_DAY,        \* transform: rows taken per snapshot by Pass 1
    tpc,                  \* transform: position of run()
    files,                \* transform: the snapshot files run() found
    popular_pages_set,    \* transform: result of build_popular_pages_set
    popular_table,        \* transform: result of transform_popular_pages
    monthly_table,        \* transform: result of transform_monthly_views
    months,               \* transform: sorted months still to save
    tresult,              \* transform: how run() ended
    asset_state,          \* legacy asset: persisted last_processed_date
    asset_uploaded,       \* legacy asset: the tables given to upload_data so far
    asset_pc,             \* legacy asset: position of process_page_views()
    asset_current_date,   \* legacy asset: date of the iteration
    asset_end_date,       \* legacy asset: yesterday, as read at the start
    asset_returned        \* legacy asset: how the last call ended, and its value

vars == <<today, upstream, raw, saved_state, pc, last_processed_date,
          start_date, end_date, current_date, days_processed, elapsed,
          result, report, attempted, skipped, crash_date, failed_date,
          TOP_K_PER_DAY, tpc, files, popular_pages_set, popular_table, monthly_table,
          months, tresult,
          asset_state, asset_uploaded, asset_pc, asset_current_date,
          asset_end_date, asset_returned>>

\* what a transform run computes
transform == <<tpc, files, popular_pages_set, popular_table, monthly_table,
               months, tresult>>

\* the state of the legacy asset pipeline (src/assets/page_views)
asset == <<asset_state, asset_uploaded, asset_pc, asset_current_date,
           asset_end_date, asset_returned>>

\* what the ingest loop leaves alone
downstream == <<TOP_K_PER_DAY, transform, asset>>

locals == <<last_processed_date, start_date, end_date, current_date,
            days_processed, elapsed, attempted>>

history == <<skipped, crash_date, failed_date>>

\* process_page_views() of the legacy asset has not been called
AssetNotStarted ==
    /\ asset_state = NoState
    /\ asset_uploaded = {}
    /\ asset_pc = "idle"
    /\ asset_current_date = NoDate
    /\ asset_end_date = NoDate
    /\ asset_returned = [how |-> "none"]

\* no transform run has started
TransformNotStarted ==
    /\ tpc = "idle"
    /\ files = <<>>
    /\ popular_pages_set = {}
    /\ popular_table = <<>>
    /\ monthly_table = <<>>
    /\ months = <<>>
    /\ tresult = "none"

Init ==
    /\ today = FirstDay
    /\ upstream = [d \in AllDates |-> "absent"]
    /\ raw = <<>>
    /\ saved_state = NoState
    /\ pc = [p \in Procs |-> "idle"]
    /\ last_processed_date = [p \in Procs |-> NoState]
    /\ start_date = [p \in Procs |-> NoDate]
    /\ end_date = [p \in Procs |-> NoDate]
    /\ current_date = [p \in Procs |-> NoDate]
    /\ days_processed = [p \in Procs |-> 0]
    /\ elapsed = [p \in Procs |-> 0]
    /\ result = [p \in Procs |-> "none"]
    /\ report = [p \in Procs |-> "none"]
    /\ attempted = [p \in Procs |-> <<>>]
    /\ skipped = <<>>
    /\ crash_date = NoDate
    /\ failed_date = NoDate
    /\ TOP_K_PER_DAY = MaxTopK
    /\ TransformNotStarted
    /\ AssetNotStarted

(***************************************************************************)
(* The environment: the calendar, the clock and the archive.               *)
(***************************************************************************)
MidnightPasses ==
    /\ DateLT(today, LastDay)
    /\ today' = AddDay(today)
    /\ UNCHANGED <<downstream, upstream, raw, saved_state, pc, result, report,
                   history, locals>>

Tick ==
    /\ \E p \in Procs : pc[p] # "idle" /\ elapsed[p] < GH_ACTIONS_MAX_RUN_SECONDS
    /\ elapsed' = [p \in Procs |->
                     IF pc[p] # "idle" /\ elapsed[p] < GH_ACTIONS_MAX_RUN_SECONDS
                     THEN elapsed[p] + TickStep ELSE elapsed[p]]
    /\ UNCHANGED <<downstream, today, upstream, raw, saved_state, pc, result, report, history,
                   last_processed_date, start_date, end_date, current_date,
                   days_processed, attempted>>

\* what the archive may put in the place of a file: a dump appears, a dump
\* without rows of the project is completed, a dump is replaced
Republish(key) ==
    CASE key = "absent" -> {"norows", "v1", "v2"}
      [] key = "norows" -> {"v1", "v2"}
      [] key = "v1" -> {"v2"}
      [] key = "v2" -> {}

\* the archive publishes the dump of a past day, or replaces it
UpstreamPublishes(d, key) ==
    /\ DateLT(d, today)
    /\ key \in Republish(upstream[d])
    /\ upstream' = [upstream EXCEPT ![d] = key]
    /\ UNCHANGED <<downstream, today, raw, saved_state, pc, result, report, history, locals>>

(***************************************************************************)
(* run()                                                                   *)
(***************************************************************************)
\* variant: the range always starts at the configured start date
StartDateFor_IgnoringCheckpoint(lpd) ==
    StrpDate(DATA_COLLECTION_START_DATE)

\* variant: the range starts on the checkpoint date itself
StartDateFor_SameDay(lpd) ==
    IF Len(lpd) > 0 THEN StrpDate(lpd)
    ELSE StrpDate(DATA_COLLECTION_START_DATE)

\* lines 70-73
StartDateFor(lpd) ==
    IF Len(lpd) > 0 THEN AddDay(StrpDate(lpd))
    ELSE StrpDate(DATA_COLLECTION_START_DATE)

\* variant: the range ends at the current day
EndDateAt_Today(now) == now

\* lines 75-76
EndDateAt(now) == SubDay(now)

\* run() is left: its local variables are gone
Return(p, how, line) ==
    /\ crash_date' = IF pc[p] = "written" THEN current_date[p] ELSE NoDate
    /\ failed_date' = IF how = "raised" THEN current_date[p] ELSE NoDate
    /\ pc' = [pc EXCEPT ![p] = "idle"]
    /\ result' = [result EXCEPT ![p] = how]
    /\ report' = [report EXCEPT ![p] = line]
    /\ last_processed_date' = [last_processed_date EXCEPT ![p] = NoState]
    /\ start_date' = [start_date EXCEPT ![p] = NoDate]
    /\ end_date' = [end_date EXCEPT ![p] = NoDate]
    /\ current_date' = [current_date EXCEPT ![p] = NoDate]
    /\ days_processed' = [days_processed EXCEPT ![p] = 0]
    /\ elapsed' = [elapsed EXCEPT ![p] = 0]
    /\ attempted' = [attempted EXCEPT ![p] = <<>>]

\* lines 63-80: the range is empty, run() returns False
AlreadyCaughtUp(p) ==
    /\ pc[p] = "idle"
    /\ DateLT(EndDateAt(today), StartDateFor(saved_state))
    /\ Return(p, "False", "Already caught up")
    /\ UNCHANGED <<downstream, today, upstream, raw, saved_state, skipped>>

\* lines 63-86: the range is not empty, run() enters the loop
BeginLoop(p) ==
    /\ pc[p] = "idle"
    /\ ~ DateLT(EndDateAt(today), StartDateFor(saved_state))
    /\ last_processed_date' = [last_processed_date EXCEPT ![p] = saved_state]
    /\ start_date' = [start_date EXCEPT ![p] = StartDateFor(saved_state)]
    /\ end_date' = [end_date EXCEPT ![p] = EndDateAt(today)]
    /\ current_date' = [current_date EXCEPT ![p] = StartDateFor(saved_state)]
    /\ days_processed' = [days_processed EXCEPT ![p] = 0]
    /\ elapsed' = [elapsed EXCEPT ![p] = 0]
    /\ attempted' = [attempted EXCEPT ![p] = <<>>]
    /\ result' = [result EXCEPT ![p] = "none"]
    /\ report' = [report EXCEPT ![p] = "none"]
    /\ pc' = [pc EXCEPT ![p] = "loop"]
    /\ failed_date' = NoDate
    /\ UNCHANGED <<downstream, today, upstream, raw, saved_state, skipped,
                   crash_date>>

\* variant: the loop stops before the last date of the range
LoopCondition_Exclusive(p) == DateLT(current_date[p], end_date[p])

\* line 88
LoopCondition(p) == DateLE(current_date[p], end_date[p])

\* variant: the budget counts as used up only once it is passed
BudgetExceeded_Strict(p) == elapsed[p] > GH_ACTIONS_MAX_RUN_SECONDS

\* line 90
BudgetExceeded(p) == elapsed[p] >= GH_ACTIONS_MAX_RUN_SECONDS

\* lines 88, 108-109: the loop ends, run() returns False
LoopCompleted(p) ==
    /\ pc[p] = "loop"
    /\ ~ LoopCondition(p)
    /\ Return(p, "False", "Completed")
    /\ UNCHANGED <<downstream, today, upstream, raw, saved_state, skipped>>

\* variant: the budget is checked after the snapshot is written as well
BudgetExhausted_AfterWrite(p) ==
    /\ pc[p] \in {"loop", "written"}
    /\ LoopCondition(p)
    /\ BudgetExceeded(p)
    /\ Return(p, "True", "Time budget exhausted")
    /\ UNCHANGED <<downstream, today, upstream, raw, saved_state, skipped>>

\* lines 89-92: the budget is used up, run() returns True
BudgetExhausted(p) ==
    /\ pc[p] = "loop"
    /\ LoopCondition(p)
    /\ BudgetExceeded(p)
    /\ Return(p, "True", "Time budget exhausted")
    /\ UNCHANGED <<downstream, today, upstream, raw, saved_state, skipped>>

\* lines 94-96: the iteration calls fetch_pageviews_for_date(current_date)
FetchStart(p) ==
    /\ pc[p] = "loop"
    /\ LoopCondition(p)
    /\ ~ BudgetExceeded(p)
    /\ attempted' = [attempted EXCEPT ![p] = Append(@, current_date[p])]
    /\ pc' = [pc EXCEPT ![p] = "fetching"]
    /\ UNCHANGED <<downstream, today, upstream, raw, saved_state, result, report, history,
                   last_processed_date, start_date, end_date, current_date,
                   days_processed, elapsed>>

\* variant: the checkpoint of the date is saved before the error propagates
FetchRaises_SavingState(p) ==
    /\ pc[p] = "fetching"
    /\ saved_state' = StrfDate(current_date[p])
    /\ Return(p, "raised", "none")
    /\ UNCHANGED <<downstream, today, upstream, raw, skipped>>

\* lines 20-24, 29, 53: get, raise_for_status, bz2 or save_raw_parquet raise
\* an error that is not a ValueError (always so for a dump that is not
\* there); it propagates out of run()
FetchRaises(p) ==
    /\ pc[p] = "fetching"
    /\ Return(p, "raised", "none")
    /\ UNCHANGED <<downstream, today, upstream, raw, saved_state, skipped>>

\* variant: the date that raised ValueError is fetched again at once
FetchValueError_Retrying(p) ==
    /\ pc[p] = "fetching"
    /\ LET outcome == FetchOutcome(upstream[current_date[p]], current_date[p])
       IN  /\ outcome.kind = "ValueError"
           /\ skipped' = [d \in (DOMAIN skipped) \cup {current_date[p]} |->
                             IF d = current_date[p] THEN outcome.error ELSE skipped[d]]
    /\ pc' = [pc EXCEPT ![p] = "loop"]
    /\ UNCHANGED <<downstream, today, upstream, raw, saved_state, result, report,
                   crash_date, failed_date, locals>>

\* lines 41-44, 103-106: ValueError, the date is logged and passed over
FetchValueError(p) ==
    /\ pc[p] = "fetching"
    /\ LET outcome == FetchOutcome(upstream[current_date[p]], current_date[p])
       IN  /\ outcome.kind = "ValueError"
           /\ skipped' = [d \in (DOMAIN skipped) \cup {current_date[p]} |->
                             IF d = current_date[p] THEN outcome.error ELSE skipped[d]]
    /\ current_date' = [current_date EXCEPT ![p] = AddDay(@)]
    /\ pc' = [pc EXCEPT ![p] = "loop"]
    /\ UNCHANGED <<downstream, today, upstream, raw, saved_state, result, report,
                   crash_date, failed_date,
                   last_processed_date, start_date, end_date,
                   days_processed, elapsed, attempted>>

\* lines 46-54: the snapshot of the date is written
FetchWrites(p) ==
    /\ pc[p] = "fetching"
    /\ LET outcome == FetchOutcome(upstream[current_date[p]], current_date[p])
       IN  /\ outcome.kind = "table"
           /\ raw' = save_raw_parquet(raw, outcome.rows, SnapshotName(current_date[p]))
    /\ skipped' = [d \in (DOMAIN skipped) \ {current_date[p]} |-> skipped[d]]
    /\ pc' = [pc EXCEPT ![p] = "written"]
    /\ UNCHANGED <<downstream, today, upstream, saved_state, result, report,
                   crash_date, failed_date, locals>>

\* variant: the date is incremented before the checkpoint is saved
SaveState_AfterIncrement(p) ==
    /\ pc[p] = "written"
    /\ saved_state' = StrfDate(AddDay(current_date[p]))
    /\ days_processed' = [days_processed EXCEPT ![p] = @ + 1]
    /\ current_date' = [current_date EXCEPT ![p] = AddDay(@)]
    /\ pc' = [pc EXCEPT ![p] = "loop"]
    /\ UNCHANGED <<downstream, today, upstream, raw, result, report, history,
                   last_processed_date, start_date, end_date, elapsed, attempted>>

\* lines 98-101, 106: the checkpoint is saved, the loop moves to the next date
SaveState(p) ==
    /\ pc[p] = "written"
    /\ saved_state' = StrfDate(current_date[p])
    /\ days_processed' = [days_processed EXCEPT ![p] = @ + 1]
    /\ current_date' = [current_date EXCEPT ![p] = AddDay(@)]
    /\ pc' = [pc EXCEPT ![p] = "loop"]
    /\ UNCHANGED <<downstream, today, upstream, raw, result, report, history,
                   last_processed_date, start_date, end_date, elapsed, attempted>>

\* lines 98-100: save_state raises (storage error); it propagates
SaveStateRaises(p) ==
    /\ pc[p] = "written"
    /\ Return(p, "raised", "none")
    /\ UNCHANGED <<downstream, today, upstream, raw, saved_state, skipped>>

\* the process is killed while run() executes
Crash(p) ==
    /\ pc[p] # "idle"
    /\ Return(p, "crashed", "none")
    /\ UNCHANGED <<downstream, today, upstream, raw, saved_state, skipped>>

Run(p) ==
    \/ AlreadyCaughtUp(p)
    \/ BeginLoop(p)
    \/ LoopCompleted(p)
    \/ BudgetExhausted(p)
    \/ FetchStart(p)
    \/ FetchRaises(p)
    \/ FetchValueError(p)
    \/ FetchWrites(p)
    \/ SaveState(p)
    \/ SaveStateRaises(p)
    \/ Crash(p)

Environment ==
    \/ MidnightPasses
    \/ Tick
    \/ \E d \in AllDates, key \in ArchiveKeys : UpstreamPublishes(d, key)

Next == Environment \/ \E p \in Procs : Run(p)

Spec == Init /\ [][Next]_vars

(***************************************************************************)
(* run() invoked again whenever it returns True, on a day that does not    *)
(* end, with a dump with rows of the project for every date of the range   *)
(* and no error but ValueError.                                            *)
(***************************************************************************)
\* the runners ps are outside run()
NotRunning(ps) ==
    /\ pc = [p \in ps |-> "idle"]
    /\ last_processed_date = [p \in ps |-> NoState]
    /\ start_date = [p \in ps |-> NoDate]
    /\ end_date = [p \in ps |-> NoDate]
    /\ current_date = [p \in ps |-> NoDate]
    /\ days_processed = [p \in ps |-> 0]
    /\ elapsed = [p \in ps |-> 0]
    /\ result = [p \in ps |-> "none"]
    /\ report = [p \in ps |-> "none"]
    /\ attempted = [p \in ps |-> <<>>]

\* the dumps with rows of the project
AvailableKeys == {"v1", "v2"}

\* nothing is ingested yet, at least one day is over
LiveInit ==
    /\ today \in {AddDays(FirstDay, i) : i \in 1..MaxDay}
    /\ upstream \in [AllDates -> AvailableKeys]
    /\ raw = <<>>
    /\ saved_state = NoState
    /\ NotRunning(Procs)
    /\ skipped = <<>>
    /\ crash_date = NoDate
    /\ failed_date = NoDate
    /\ TOP_K_PER_DAY = MaxTopK
    /\ TransformNotStarted
    /\ AssetNotStarted

\* run() is invoked for the first time, or again after it returned True
Invoke(p) ==
    /\ result[p] \in {"none", "True"}
    /\ BeginLoop(p)

LiveNext ==
    \/ Tick
    \/ \E p \in Procs :
          \/ Invoke(p)
          \/ LoopCompleted(p)
          \/ BudgetExhausted(p)
          \/ FetchStart(p)
          \/ FetchWrites(p)
          \/ SaveState(p)

\* every statement of run() is executed in the end, and so is the next
\* invocation; the first budget check of an invocation, which follows
\* start_time at once, finds budget left in the end (strong fairness: the
\* clock may use up the budget before any other check)
LiveSpec ==
    /\ LiveInit
    /\ [][LiveNext]_vars
    /\ \A p \in Procs :
          /\ WF_vars(Invoke(p))
          /\ SF_vars(FetchStart(p))
          /\ WF_vars(FetchWrites(p))
          /\ WF_vars(SaveState(p))
          /\ WF_vars(BudgetExhausted(p))
          /\ WF_vars(LoopCompleted(p))

(***************************************************************************)
(* Two invocations of run() at the same time, in two processes that share  *)
(* the store of the snapshots and of the checkpoint, without a lock.       *)
(***************************************************************************)
Runners == {1, 2}

\* the dumps served: without a row of the project, or with rows
ConcurrentKeys == {"norows", "v1"}

ConcurrentInit ==
    /\ today = LastDay
    /\ upstream \in [AllDates -> ConcurrentKeys]
    /\ raw = <<>>
    /\ saved_state = NoState
    /\ NotRunning(Runners)
    /\ skipped = <<>>
    /\ crash_date = NoDate
    /\ failed_date = NoDate
    /\ TOP_K_PER_DAY = MaxTopK
    /\ TransformNotStarted
    /\ AssetNotStarted

\* the statements of the two invocations interleave in any order
ConcurrentNext ==
    \E p \in Runners :
        \/ AlreadyCaughtUp(p)
        \/ BeginLoop(p)
        \/ LoopCompleted(p)
        \/ FetchStart(p)
        \/ FetchValueError(p)
        \/ FetchWrites(p)
        \/ SaveState(p)

ConcurrentSpec == ConcurrentInit /\ [][ConcurrentNext]_vars

(***************************************************************************)
(* A transform run (src/src/transforms/page_views/main.py, run()) over the *)
(* store an ingest deployment has left.                                    *)
(***************************************************************************)
\* the dumps the archive may have served while the snapshots were taken
TransformKeys == {"absent", "norows", "v1", "v2", "v3", "v4"}

\* the dates the ingest loop has got to: a date whose request raises stops it
Reached(served) ==
    {d \in AllDates :
        \A e \in AllDates :
            DateLE(e, d) => FetchOutcome(served[e], e).kind # "raise"}

RECURSIVE Ingested(_, _)
\* the store after the ingest loop went through the first n dates
Ingested(served, n) ==
    IF n = 0 THEN <<>>
    ELSE LET d == AddDays(FirstDay, n - 1)
             outcome == FetchOutcome(served[d], d)
         IN  IF d \in Reached(served) /\ outcome.kind = "table"
             THEN save_raw_parquet(Ingested(served, n - 1), outcome.rows,
                                   SnapshotName(d))
             ELSE Ingested(served, n - 1)

\* the checkpoint the ingest loop has saved by then
IngestedState(served) ==
    LET saved == {d \in Reached(served) : FetchOutcome(served[d], d).kind = "table"}
    IN  IF saved = {} THEN NoState
        ELSE StrfDate(CHOOSE d \in saved : \A e \in saved : DateLE(e, d))

\* the state the ingest loop has left, given what the archive served
AfterIngest ==
    /\ today = LastDay
    /\ raw = Ingested(upstream, MaxDay)
    /\ saved_state = IngestedState(upstream)
    /\ pc = [p \in Procs |-> "idle"]
    /\ last_processed_date = [p \in Procs |-> NoState]
    /\ start_date = [p \in Procs |-> NoDate]
    /\ end_date = [p \in Procs |-> NoDate]
    /\ current_date = [p \in Procs |-> NoDate]
    /\ days_processed = [p \in Procs |-> 0]
    /\ elapsed = [p \in Procs |-> 0]
    /\ result = [p \in Procs |->
                    IF Reached(upstream) = AllDates THEN "False" ELSE "raised"]
    /\ report = [p \in Procs |->
                    IF Reached(upstream) = AllDates THEN "Completed" ELSE "none"]
    /\ attempted = [p \in Procs |-> <<>>]
    /\ skipped = [d \in {e \in Reached(upstream) :
                            FetchOutcome(upstream[e], e).kind = "ValueError"} |->
                     FetchOutcome(upstream[d], d).error]
    /\ crash_date = NoDate
    /\ failed_date = IF Reached(upstream) = AllDates THEN NoDate
                     ELSE CHOOSE d \in AllDates \ Reached(upstream) :
                             \A e \in AllDates \ Reached(upstream) : DateLE(d, e)

TransformInit ==
    /\ upstream \in [AllDates -> TransformKeys]
    /\ AfterIngest
    /\ TOP_K_PER_DAY \in 1..MaxTopK
    /\ TransformNotStarted
    /\ AssetNotStarted

\* what a transform run leaves alone, the store apart
ingest == <<today, upstream, saved_state, pc, result, report, history, locals,
            asset>>

\* variant: the popular pages are saved next to the daily snapshots
PopularName_InRawDir ==
    <<"p", "a", "g", "e", "_", "v", "i", "e", "w", "s", "_",
      "p", "o", "p", "u", "l", "a", "r">>

\* "wikipedia/popular_pages"
PopularName ==
    <<"w", "i", "k", "i", "p", "e", "d", "i", "a", "/",
      "p", "o", "p", "u", "l", "a", "r", "_", "p", "a", "g", "e", "s">>

\* f"wikipedia/monthly/{month}"
MonthlyName(month) ==
    <<"w", "i", "k", "i", "p", "e", "d", "i", "a", "/",
      "m", "o", "n", "t", "h", "l", "y", "/">> \o month

\* assert_valid_date: YYYY-MM-DD
valid_date(s) ==
    /\ Len(s) = 10
    /\ \A i \in {1, 2, 3, 4, 6, 7, 9, 10} : IsDigit(s[i])
    /\ s[5] = "-" /\ s[8] = "-"

\* assert_valid_month: YYYY-MM
valid_month(s) ==
    /\ Len(s) = 7
    /\ \A i \in {1, 2, 3, 4, 6, 7} : IsDigit(s[i])
    /\ s[5] = "-"

\* test.py line 68: 1000 in the source, of the size of the tables of the
\* model here so that tables on both sides of it occur
MIN_PAGES_PER_MONTH == 2

\* test.py lines 7-36: TRUE when test_popular_pages(table) returns, FALSE
\* when it raises
test_popular_pages(table) ==
    /\ Len(table) >= 1
    /\ \A i \in 1..Len(table) : valid_date(table[i].date)
    /\ \A i \in 1..Len(table) : table[i].views > 0
    /\ \A i \in 1..Len(table) : table[i].page_id # "null"
    /\ Cardinality({table[i].date : i \in 1..Len(table)}) >= 1

\* test.py lines 39-70: TRUE when test_monthly_views(table) returns, FALSE
\* when it raises
test_monthly_views(table) ==
    /\ Len(table) >= 1
    /\ \A i, j \in 1..Len(table) :
          table[i].month = table[j].month /\ table[i].page_id = table[j].page_id
             => i = j
    /\ \A i \in 1..Len(table) : valid_month(table[i].month)
    /\ \A i \in 1..Len(table) : table[i].views > 0
    /\ \A i \in 1..Len(table) : table[i].page_id # "null"
    /\ Len(table) >=
          MIN_PAGES_PER_MONTH * Cardinality({table[i].month : i \in 1..Len(table)})

\* lines 126-130: there is no snapshot, run() returns
NoFiles ==
    /\ tpc = "idle"
    /\ get_raw_parquet_files(raw) = <<>>
    /\ tpc' = "done"
    /\ tresult' = "No raw parquet files found"
    /\ UNCHANGED <<ingest, raw, TOP_K_PER_DAY, files, popular_pages_set,
                   popular_table, monthly_table, months>>

\* lines 126-132
ListFiles ==
    /\ tpc = "idle"
    /\ get_raw_parquet_files(raw) # <<>>
    /\ files' = get_raw_parquet_files(raw)
    /\ tpc' = "pass1"
    /\ UNCHANGED <<ingest, raw, TOP_K_PER_DAY, popular_pages_set, popular_table,
                   monthly_table, months, tresult>>

\* line 136
BuildPopularSet ==
    /\ tpc = "pass1"
    /\ popular_pages_set' = build_popular_pages_set(files, raw, TOP_K_PER_DAY)
    /\ tpc' = "pass2"
    /\ UNCHANGED <<ingest, raw, TOP_K_PER_DAY, files, popular_table,
                   monthly_table, months, tresult>>

\* line 137
TransformPopular ==
    /\ tpc = "pass2"
    /\ popular_table' = transform_popular_pages(files, raw, popular_pages_set)
    /\ tpc' = "test_popular"
    /\ UNCHANGED <<ingest, raw, TOP_K_PER_DAY, files, popular_pages_set,
                   monthly_table, months, tresult>>

\* line 139: the validation raises, and so does run()
TestPopularFails ==
    /\ tpc = "test_popular"
    /\ ~ test_popular_pages(popular_table)
    /\ tpc' = "failed"
    /\ tresult' = "test_popular_pages raised"
    /\ UNCHANGED <<ingest, raw, TOP_K_PER_DAY, files, popular_pages_set,
                   popular_table, monthly_table, months>>

\* lines 139-140: the validation passes, the popular-pages output is saved
SavePopular ==
    /\ tpc = "test_popular"
    /\ test_popular_pages(popular_table)
    /\ raw' = save_raw_parquet(raw, popular_table, PopularName)
    /\ tpc' = "monthly"
    /\ UNCHANGED <<ingest, TOP_K_PER_DAY, files, popular_pages_set,
                   popular_table, monthly_table, months, tresult>>

\* line 145
TransformMonthly ==
    /\ tpc = "monthly"
    /\ monthly_table' = transform_monthly_views(files, raw)
    /\ tpc' = "test_monthly"
    /\ UNCHANGED <<ingest, raw, TOP_K_PER_DAY, files, popular_pages_set,
                   popular_table, months, tresult>>

\* line 146: the validation raises, and so does run()
TestMonthlyFails ==
    /\ tpc = "test_monthly"
    /\ ~ test_monthly_views(monthly_table)
    /\ tpc' = "failed"
    /\ tresult' = "test_monthly_views raised"
    /\ UNCHANGED <<ingest, raw, TOP_K_PER_DAY, files, popular_pages_set,
                   popular_table, monthly_table, months>>

\* lines 146-150: the validation passes, the months are sorted
TestMonthlyPasses ==
    /\ tpc = "test_monthly"
    /\ test_monthly_views(monthly_table)
    /\ months' = Sorted({monthly_table[i].month : i \in 1..Len(monthly_table)})
    /\ tpc' = "save_monthly"
    /\ UNCHANGED <<ingest, raw, TOP_K_PER_DAY, files, popular_pages_set,
                   popular_table, monthly_table, tresult>>

\* lines 150-153: the partition of the next month is saved
SaveMonth ==
    /\ tpc = "save_monthly"
    /\ Len(months) > 0
    /\ LET month == Head(months)
           OfMonth(row) == row.month = month
       IN  raw' = save_raw_parquet(raw, SelectSeq(monthly_table, OfMonth),
                                   MonthlyName(month))
    /\ months' = Tail(months)
    /\ UNCHANGED <<ingest, TOP_K_PER_DAY, tpc, files, popular_pages_set,
                   popular_table, monthly_table, tresult>>

\* lines 140, 153: save_raw_parquet raises (storage error), and so does run()
SaveRaises ==
    /\ \/ tpc = "test_popular" /\ test_popular_pages(popular_table)
       \/ tpc = "save_monthly" /\ Len(months) > 0
    /\ tpc' = "failed"
    /\ tresult' = "save_raw_parquet raised"
    /\ UNCHANGED <<ingest, raw, TOP_K_PER_DAY, files, popular_pages_set,
                   popular_table, monthly_table, months>>

\* lines 155-157: every partition is saved, run() returns
TransformsComplete ==
    /\ tpc = "save_monthly"
    /\ Len(months) = 0
    /\ tpc' = "done"
    /\ tresult' = "Transforms complete"
    /\ UNCHANGED <<ingest, raw, TOP_K_PER_DAY, files, popular_pages_set,
                   popular_table, monthly_table, months>>

TransformNext ==
    \/ NoFiles
    \/ ListFiles
    \/ BuildPopularSet
    \/ TransformPopular
    \/ TestPopularFails
    \/ SavePopular
    \/ TransformMonthly
    \/ TestMonthlyFails
    \/ TestMonthlyPasses
    \/ SaveMonth
    \/ SaveRaises
    \/ TransformsComplete

TransformSpec == TransformInit /\ [][TransformNext]_vars

(***************************************************************************)
(* The functions of the transforms applied to the snapshots in any order   *)
(* of the files and of the rows of each file.                              *)
(***************************************************************************)
\* the dumps served: two rows, or three rows with a tie, a zero count and
\* another entity for pageA
OrderKeys == {"v1", "v3"}

\* every date has a snapshot, at most one of them of three rows
OrderInit ==
    /\ upstream \in {u \in [AllDates -> OrderKeys] :
                        Cardinality({d \in AllDates : u[d] = "v3"}) <= 1}
    /\ AfterIngest
    /\ TOP_K_PER_DAY \in 1..MaxTopK
    /\ files = get_raw_parquet_files(raw)
    /\ tpc = "idle"
    /\ popular_pages_set = {}
    /\ popular_table = <<>>
    /\ monthly_table = <<>>
    /\ months = <<>>
    /\ tresult = "none"
    /\ AssetNotStarted

\* s with its elements i and i + 1 exchanged
Swap(s, i) ==
    [j \in 1..Len(s) |-> IF j = i THEN s[i + 1] ELSE IF j = i + 1 THEN s[i] ELSE s[j]]

\* the list of files is given in another order
SwapFiles(i) ==
    /\ tpc = "idle"
    /\ i + 1 <= Len(files)
    /\ files' = Swap(files, i)
    /\ UNCHANGED <<ingest, raw, TOP_K_PER_DAY, tpc, popular_pages_set,
                   popular_table, monthly_table, months, tresult>>

\* the rows of a snapshot come in another order
SwapRows(n, i) ==
    /\ tpc = "idle"
    /\ n \in Glob(raw)
    /\ i + 1 <= Len(raw[n])
    /\ raw' = [raw EXCEPT ![n] = Swap(raw[n], i)]
    /\ UNCHANGED <<ingest, TOP_K_PER_DAY, tpc, files, popular_pages_set,
                   popular_table, monthly_table, months, tresult>>

\* lines 136, 137, 145: the three functions are applied to the files
ApplyTransforms ==
    /\ tpc = "idle"
    /\ popular_pages_set' = build_popular_pages_set(files, raw, TOP_K_PER_DAY)
    /\ popular_table' = transform_popular_pages(files, raw, popular_pages_set')
    /\ monthly_table' = transform_monthly_views(files, raw)
    /\ tpc' = "applied"
    /\ UNCHANGED <<ingest, raw, TOP_K_PER_DAY, files, months, tresult>>

OrderNext ==
    \/ \E i \in 1..Len(files) : SwapFiles(i)
    \/ \E n \in Glob(raw) : \E i \in 1..Len(raw[n]) : SwapRows(n, i)
    \/ ApplyTransforms

OrderSpec == OrderInit /\ [][OrderNext]_vars

(***************************************************************************)
(* The legacy asset pipeline (src/assets/page_views/page_views.py).        *)
(***************************************************************************)
\* lines 7-10
WIKI_LOCALES == <<[locale_id |-> "en", project_name |-> "en.wikipedia"],
                  [locale_id |-> "nl", project_name |-> "nl.wikipedia"]>>

\* lines 83-91: the rows one line adds, one per locale of its project
asset_rows_of_line(split, date) ==
    LET Matches(l) == split[1] = l.project_name /\ split[3] # "null"
        matching == SelectSeq(WIKI_LOCALES, Matches)
    IN  [i \in 1..Len(matching) |->
            [date |-> date, locale |-> matching[i].locale_id, entity |-> split[2],
             page_id |-> split[3], views |-> ParseInt(split[5])]]

RECURSIVE asset_parse(_, _)
\* lines 70-91: the rows kept so far, or ValueError from int(view_count)
asset_parse(lines, date) ==
    IF Len(lines) = 0 THEN [error |-> FALSE, rows |-> <<>>]
    ELSE LET before == asset_parse(SubSeq(lines, 1, Len(lines) - 1), date)
             split == lines[Len(lines)]
             Matches(l) == split[1] = l.project_name /\ split[3] # "null"
         IN  IF before.error THEN before
             ELSE IF Len(split) # 6 THEN before
             ELSE IF SelectSeq(WIKI_LOCALES, Matches) = <<>> THEN before
             ELSE IF IsInt(split[5])
                  THEN [error |-> FALSE,
                        rows |-> before.rows \o asset_rows_of_line(split, date)]
                  ELSE [error |-> TRUE, rows |-> <<>>]

\* lines 62-96: what fetch_pageviews_for_date of the asset does with the
\* response for `date`
asset_fetch(key, date) ==
    LET response == Archive(key)
        parsed == asset_parse(response.lines, date)
    IN  IF response.status # 200
        THEN [kind |-> "raise", rows |-> <<>>]
        ELSE IF parsed.error \/ Len(parsed.rows) = 0
        THEN [kind |-> "ValueError", rows |-> <<>>]
        ELSE [kind |-> "data", rows |-> parsed.rows]

RECURSIVE group_by_sum(_)
\* line 48: one row per (date, locale, entity, page_id), the views summed
group_by_sum(rows) ==
    IF Len(rows) = 0 THEN <<>>
    ELSE LET before == group_by_sum(SubSeq(rows, 1, Len(rows) - 1))
             row == rows[Len(rows)]
             Same(g) == /\ g.date = row.date /\ g.locale = row.locale
                        /\ g.entity = row.entity /\ g.page_id = row.page_id
         IN  IF \E i \in 1..Len(before) : Same(before[i])
             THEN [i \in 1..Len(before) |->
                      IF Same(before[i])
                      THEN [before[i] EXCEPT !.views_sum = @ + row.views]
                      ELSE before[i]]
             ELSE Append(before,
                         [date |-> row.date, locale |-> row.locale,
                          entity |-> row.entity, page_id |-> row.page_id,
                          views_sum |-> row.views])

\* the value of a call that ends without a return statement
None == [type |-> "NoneType"]

\* lines 16-32: process_page_views() is called
AssetBegin ==
    /\ asset_pc = "idle"
    /\ asset_current_date' = StartDateFor(asset_state)
    /\ asset_end_date' = EndDateAt(today)
    /\ asset_returned' = [how |-> "none"]
    /\ asset_pc' = "loop"
    /\ UNCHANGED <<today, upstream, raw, saved_state, pc, result, report, history,
                   locals, TOP_K_PER_DAY, transform, asset_state, asset_uploaded>>

\* lines 36, 51, 54: get, raise_for_status, bz2, upload_data or save_state
\* raise an error that is not a ValueError; it propagates
AssetRaises ==
    /\ \/ asset_pc = "loop" /\ DateLE(asset_current_date, asset_end_date)
       \/ asset_pc = "uploaded"
    /\ asset_pc' = "idle"
    /\ asset_current_date' = NoDate
    /\ asset_end_date' = NoDate
    /\ asset_returned' = [how |-> "raised"]
    /\ UNCHANGED <<today, upstream, raw, saved_state, pc, result, report, history,
                   locals, TOP_K_PER_DAY, transform, asset_state, asset_uploaded>>

\* lines 56-59: ValueError, the date is logged and passed over
AssetValueError ==
    /\ asset_pc = "loop"
    /\ DateLE(asset_current_date, asset_end_date)
    /\ asset_fetch(upstream[asset_current_date], asset_current_date).kind = "ValueError"
    /\ asset_current_date' = AddDay(asset_current_date)
    /\ UNCHANGED <<today, upstream, raw, saved_state, pc, result, report, history,
                   locals, TOP_K_PER_DAY, transform, asset_state, asset_uploaded,
                   asset_pc, asset_end_date, asset_returned>>

\* lines 36-51: the table of the day is grouped and uploaded
AssetUpload ==
    /\ asset_pc = "loop"
    /\ DateLE(asset_current_date, asset_end_date)
    /\ LET outcome == asset_fetch(upstream[asset_current_date], asset_current_date)
       IN  /\ outcome.kind = "data"
           /\ asset_uploaded' = asset_uploaded \cup {group_by_sum(outcome.rows)}
    /\ asset_pc' = "uploaded"
    /\ UNCHANGED <<today, upstream, raw, saved_state, pc, result, report, history,
                   locals, TOP_K_PER_DAY, transform, asset_state,
                   asset_current_date, asset_end_date, asset_returned>>

\* lines 54, 59: the state is saved, the loop moves to the next date
AssetSaveState ==
    /\ asset_pc = "uploaded"
    /\ asset_state' = StrfDate(asset_current_date)
    /\ asset_current_date' = AddDay(asset_current_date)
    /\ asset_pc' = "loop"
    /\ UNCHANGED <<today, upstream, raw, saved_state, pc, result, report, history,
                   locals, TOP_K_PER_DAY, transform, asset_uploaded,
                   asset_end_date, asset_returned>>

\* lines 33, 59-60: the loop ends and so does the function body, which has no
\* return statement
AssetReturns ==
    /\ asset_pc = "loop"
    /\ ~ DateLE(asset_current_date, asset_end_date)
    /\ asset_pc' = "idle"
    /\ asset_current_date' = NoDate
    /\ asset_end_date' = NoDate
    /\ asset_returned' = [how |-> "returned", value |-> None]
    /\ UNCHANGED <<today, upstream, raw, saved_state, pc, result, report, history,
                   locals, TOP_K_PER_DAY, transform, asset_state, asset_uploaded>>

AssetNext ==
    \/ MidnightPasses
    \/ \E d \in AllDates, key \in ArchiveKeys : UpstreamPublishes(d, key)
    \/ AssetBegin
    \/ AssetRaises
    \/ AssetValueError
    \/ AssetUpload
    \/ AssetSaveState
    \/ AssetReturns

AssetSpec == Init /\ [][AssetNext]_vars

(***************************************************************************)
(* Vocabulary of the properties.                                           *)
(***************************************************************************)
HasCheckpoint == saved_state # NoState

\* the date the checkpoint names
Checkpoint == StrpDate(saved_state)

\* d lies after the checkpoint, or there is no checkpoint
AfterCheckpoint(d) == ~ HasCheckpoint \/ DateLT(Checkpoint, d)

HasSnapshot(d) == SnapshotName(d) \in DOMAIN raw

\* the rows the archive holds for d now, as a snapshot would record them
UpstreamRows(d) == FetchOutcome(upstream[d], d).rows

\* the snapshot of d records what the archive holds for d now
SnapshotIsCurrent(d) ==
    /\ HasSnapshot(d)
    /\ FetchOutcome(upstream[d], d).kind = "table"
    /\ raw[SnapshotName(d)] = UpstreamRows(d)

\* the dates of AllDates from a to b, both included
DatesBetween(a, b) == {d \in AllDates : DateLE(a, d) /\ DateLE(d, b)}

\* runner p takes a step that leaves run()
Returns(p, how) == pc[p] # "idle" /\ pc'[p] = "idle" /\ result'[p] = how

(***************************************************************************)
(* C1: the persisted checkpoint never decreases: whenever save_state       *)
(* changes it, the new value is a date, and it is strictly later than the  *)
(* date it replaces.                                                       *)
(***************************************************************************)
C1_CheckpointAdvances ==
    [][saved_state' # saved_state =>
          /\ saved_state' # NoState
          /\ HasCheckpoint => DateLT(StrpDate(saved_state), StrpDate(saved_state'))]_vars

\* an invocation that started from a checkpoint has saved a later one
C1_Witness ==
    \E p \in Procs :
        /\ last_processed_date[p] # NoState
        /\ days_processed[p] >= 1
        /\ saved_state # last_processed_date[p]

(***************************************************************************)
(* C2: a date whose fetch ended in the except clause (no data found) stays *)
(* after the checkpoint, so that the next invocation's range, which starts *)
(* the day after the checkpoint, contains it.                              *)
(***************************************************************************)
C2_SkippedDateStaysInRange ==
    \A d \in DOMAIN skipped : skipped[d] = "No data found" => AfterCheckpoint(d)

(***************************************************************************)
(* C3: when the checkpoint is D, the snapshot of D is in the store, and so *)
(* is the snapshot of every date from the start date to D whose last       *)
(* attempt did not end in the except clause; the checkpoint changes only   *)
(* in the step of a runner that has written the snapshot of the date it    *)
(* saves.                                                                  *)
(***************************************************************************)
C3_CheckpointCovered ==
    /\ [](HasCheckpoint =>
            /\ HasSnapshot(Checkpoint)
            /\ \A d \in DatesBetween(FirstDay, Checkpoint) :
                   HasSnapshot(d) \/ d \in DOMAIN skipped)
    /\ [][saved_state' # saved_state =>
            \E p \in Procs :
                /\ pc[p] = "written"
                /\ HasSnapshot(current_date[p])
                /\ saved_state' = StrfDate(current_date[p])]_vars

\* the checkpoint has passed a date that was skipped and has no snapshot
C3_Witness ==
    /\ HasCheckpoint
    /\ \E d \in DatesBetween(FirstDay, Checkpoint) :
           d \in DOMAIN skipped /\ ~ HasSnapshot(d)
    /\ \E d \in DatesBetween(FirstDay, Checkpoint) :
           d # Checkpoint /\ HasSnapshot(d)

(***************************************************************************)
(* C4: no date is fetched once the checkpoint has reached it, and every    *)
(* date from the start date to the checkpoint has a snapshot.              *)
(***************************************************************************)
C4_NoRefetchNoGap ==
    /\ [](HasCheckpoint =>
            \A d \in DatesBetween(FirstDay, Checkpoint) : HasSnapshot(d))
    /\ [][\A p \in Procs :
            (pc[p] = "loop" /\ pc'[p] = "fetching") => AfterCheckpoint(current_date[p])]_vars

(***************************************************************************)
(* C5: the dates an invocation fetches are, in order, the days that follow *)
(* the checkpoint it read (the configured start date when there was none), *)
(* none later than the day before the day it started on, hence none the    *)
(* current day; an invocation that leaves the loop by its condition has    *)
(* fetched them all, up to that day.                                       *)
(***************************************************************************)
C5_AttemptedRange ==
    /\ [](\A p \in Procs : pc[p] # "idle" =>
            /\ IF last_processed_date[p] = NoState
               THEN StrfDate(start_date[p]) = DATA_COLLECTION_START_DATE
               ELSE StrfDate(SubDay(start_date[p])) = last_processed_date[p]
            /\ DateLT(end_date[p], today)
            /\ \A i \in 1..Len(attempted[p]) :
                   /\ attempted[p][i] = AddDays(start_date[p], i - 1)
                   /\ DateLT(attempted[p][i], today)
                   /\ DateLE(attempted[p][i], end_date[p]))
    /\ [][\A p \in Procs :
            (pc[p] = "idle" /\ pc'[p] # "idle") => AddDay(end_date'[p]) = today]_vars
    /\ [][\A p \in Procs :
            (pc[p] = "loop" /\ Returns(p, "False")) =>
                /\ Len(attempted[p]) >= 1
                /\ attempted[p][Len(attempted[p])] = end_date[p]]_vars

\* an invocation that started from a checkpoint is about to leave the loop
\* after fetching two dates
C5_Witness ==
    \E p \in Procs :
        /\ pc[p] = "loop"
        /\ last_processed_date[p] # NoState
        /\ Len(attempted[p]) = 2
        /\ DateLT(end_date[p], current_date[p])

(***************************************************************************)
(* C6: an invocation that starts when the day after the checkpoint is      *)
(* later than yesterday returns False at once: it fetches nothing, writes  *)
(* no snapshot and does not write the checkpoint.                          *)
(***************************************************************************)
C6_EmptyRangeNoEffect ==
    [][\A p \in Procs :
          (/\ pc[p] = "idle"
           /\ HasCheckpoint
           /\ DateLE(SubDay(today), Checkpoint)
           /\ <<pc[p], result[p], report[p], raw, saved_state>>'
                  # <<pc[p], result[p], report[p], raw, saved_state>>)
          => /\ pc'[p] = "idle"
             /\ result'[p] = "False"
             /\ attempted'[p] = <<>>
             /\ raw' = raw
             /\ saved_state' = saved_state]_vars

\* an invocation found the checkpoint at yesterday and reported so
C6_Witness ==
    \E p \in Procs :
        /\ pc[p] = "idle"
        /\ result[p] = "False"
        /\ report[p] = "Already caught up"
        /\ HasCheckpoint
        /\ Checkpoint = SubDay(today)

(***************************************************************************)
(* C7: run() returns False only when it is caught up: at a False return    *)
(* from the loop the checkpoint is yesterday and every date of the range   *)
(* has a snapshot; at a True return the checkpoint is before yesterday.    *)
(***************************************************************************)
C7_FalseMeansCaughtUp ==
    /\ [][\A p \in Procs :
            (pc[p] = "loop" /\ Returns(p, "False")) =>
                /\ saved_state = StrfDate(end_date[p])
                /\ \A d \in DatesBetween(start_date[p], end_date[p]) : HasSnapshot(d)]_vars
    /\ [][\A p \in Procs :
            Returns(p, "True") => AfterCheckpoint(end_date[p])]_vars

(***************************************************************************)
(* C8: when an iteration starts with the budget used up, the runner does   *)
(* not fetch the date: the only step it takes returns True, and the        *)
(* snapshots, the checkpoint and the list of fetched dates are as before.  *)
(***************************************************************************)
C8_BudgetStopsBeforeDate ==
    [][\A p \in Procs :
          (/\ pc[p] = "loop"
           /\ DateLE(current_date[p], end_date[p])
           /\ elapsed[p] >= GH_ACTIONS_MAX_RUN_SECONDS)
          => /\ pc'[p] \in {"loop", "idle"}
             /\ pc'[p] = "idle" => result'[p] \in {"True", "crashed"}
             /\ pc'[p] = "loop" => attempted'[p] = attempted[p]
             /\ \A i \in 1..Len(attempted[p]) : attempted[p][i] # current_date[p]
             /\ raw' = raw
             /\ saved_state' = saved_state]_vars

\* an invocation stopped on the budget after saving a date
C8_Witness ==
    \E p \in Procs :
        /\ pc[p] = "idle"
        /\ result[p] = "True"
        /\ report[p] = "Time budget exhausted"
        /\ HasCheckpoint
        /\ DateLT(Checkpoint, SubDay(today))

\* the date an object of the store is named after
DateOfName(n) ==
    IF Len(n) = 19
    THEN <<ParseNat(SubSeq(n, 12, 15)), ParseNat(SubSeq(n, 16, 17)), ParseNat(SubSeq(n, 18, 19))>>
    ELSE NoDate

\* the objects of the store that hold the snapshot of d
ObjectsOf(d) == {n \in DOMAIN raw : DateOfName(n) = d}

(***************************************************************************)
(* C9: every object of the store is the snapshot of one date and no date   *)
(* has two; no step changes the snapshot of a date the checkpoint has      *)
(* reached, nor a snapshot that records what the archive holds for its     *)
(* date; a written snapshot holds the rows of the archive once; and the    *)
(* checkpoint is never saved for a date it has already reached.            *)
(***************************************************************************)
C9_IngestIdempotent ==
    /\ [](/\ \A n \in DOMAIN raw : DateOfName(n) \in AllDates
          /\ \A d \in AllDates : Cardinality(ObjectsOf(d)) <= 1)
    /\ [][raw' # raw =>
            \A d \in AllDates :
                (HasSnapshot(d) /\ (~ AfterCheckpoint(d) \/ SnapshotIsCurrent(d)))
                => /\ SnapshotName(d) \in DOMAIN raw'
                   /\ raw'[SnapshotName(d)] = raw[SnapshotName(d)]]_vars
    /\ [][\A p \in Procs :
            (pc[p] = "fetching" /\ pc'[p] = "written")
            => raw'[SnapshotName(current_date[p])] = UpstreamRows(current_date[p])]_vars
    /\ [][saved_state' # saved_state => AfterCheckpoint(StrpDate(saved_state'))]_vars

\* a snapshot written twice from the same archive file, beside the snapshot
\* of a date the checkpoint has reached
C9_Witness ==
    \E p \in Procs :
        /\ pc[p] = "written"
        /\ current_date[p] = crash_date
        /\ SnapshotIsCurrent(crash_date)
        /\ HasCheckpoint
        /\ HasSnapshot(Checkpoint)

(***************************************************************************)
(* C10, as claimed: after run() died between the snapshot write of a date  *)
(* and its checkpoint update, the next invocation starts with that date.   *)
(***************************************************************************)
C10_CrashedDateRetriedFirst ==
    [][\A p \in Procs :
          (pc[p] = "idle" /\ pc'[p] = "loop" /\ crash_date # NoDate)
          => current_date'[p] = crash_date]_vars

(***************************************************************************)
(* C10, amended: after run() died between the snapshot write of a date and *)
(* its checkpoint update, the range of the next invocation contains that   *)
(* date, and the dates of the range before it are dates skipped in the     *)
(* except clause; writing the snapshot again from the same archive file    *)
(* leaves the store as it was; and the checkpoint moves to a date only in  *)
(* an invocation whose last fetch was that date.                           *)
(***************************************************************************)
C10_CrashedDateRetried ==
    /\ [][\A p \in Procs :
            (pc[p] = "idle" /\ pc'[p] = "loop" /\ crash_date # NoDate)
            => /\ DateLE(start_date'[p], crash_date)
               /\ DateLE(crash_date, end_date'[p])
               /\ \A e \in DatesBetween(start_date'[p], crash_date) :
                      e = crash_date \/ e \in DOMAIN skipped]_vars
    /\ [][\A p \in Procs :
            (/\ pc[p] = "fetching" /\ pc'[p] = "written"
             /\ SnapshotIsCurrent(current_date[p]))
            => raw' = raw]_vars
    /\ [][saved_state' # saved_state =>
            \E p \in Procs :
                /\ Len(attempted[p]) >= 1
                /\ StrfDate(attempted[p][Len(attempted[p])]) = saved_state']_vars

\* the invocation after the death has written the snapshot again and saved
\* the checkpoint of the date
C10_Witness ==
    \E p \in Procs :
        /\ pc[p] = "loop"
        /\ crash_date # NoDate
        /\ current_date[p] = AddDay(crash_date)
        /\ saved_state = StrfDate(crash_date)
        /\ SnapshotIsCurrent(crash_date)
        /\ Cardinality(ObjectsOf(crash_date)) = 1

(***************************************************************************)
(* Vocabulary of the properties of the transforms.                         *)
(***************************************************************************)
\* the rows of the snapshots the transform run read, as (file, row) positions
SnapshotRows ==
    UNION {{<<f, i>> : i \in 1..Len(raw[files[f]])} : f \in 1..Len(files)}

RowAt(at) == raw[files[at[1]]][at[2]]

\* Pass 2 has run
PopularTableBuilt == tpc \notin {"idle", "pass1", "pass2"}

\* the monthly table has been computed
MonthlyTableBuilt == tpc \in {"test_monthly", "save_monthly"}
                        \/ (tpc \in {"done", "failed"} /\ Len(monthly_table) > 0)

\* C11: every row of the table transform_popular_pages returns has its page id
\* in the set build_popular_pages_set returned over the same files.
C11_RowsAreMembers ==
    PopularTableBuilt =>
        \A i \in 1..Len(popular_table) :
            popular_table[i].page_id \in popular_pages_set

\* Pass 2 has returned rows, and has dropped a row of a page outside the set
C11_Witness ==
    /\ tpc = "test_popular"
    /\ Len(popular_table) > 0
    /\ \E at \in SnapshotRows : RowAt(at).page_id \notin popular_pages_set

\* the calendar month of a snapshot date, as YYYY-MM
MonthText(date) ==
    LET dt == StrpDate(date) IN Fmt4(dt[1]) \o <<"-">> \o Fmt2(dt[2])

\* the snapshot rows of a page in a month
RowsOfMonth(month, page_id) ==
    {at \in SnapshotRows :
        RowAt(at).page_id = page_id /\ MonthText(RowAt(at).date) = month}

RECURSIVE SumOfViews(_)
SumOfViews(ats) ==
    IF ats = {} THEN 0
    ELSE LET at == CHOOSE x \in ats : TRUE
         IN  RowAt(at).views + SumOfViews(ats \ {at})

\* C12: the monthly table has exactly one row for every (month, page id) that
\* occurs in a snapshot and none for any other pair, and the views of the row
\* is the sum of the views of the snapshot rows of that page in that month.
C12_MonthlyTotals ==
    MonthlyTableBuilt =>
        /\ \A i \in 1..Len(monthly_table) :
              /\ RowsOfMonth(monthly_table[i].month, monthly_table[i].page_id) # {}
              /\ monthly_table[i].views =
                    SumOfViews(RowsOfMonth(monthly_table[i].month,
                                           monthly_table[i].page_id))
        /\ \A at \in SnapshotRows :
              Cardinality({i \in 1..Len(monthly_table) :
                              /\ monthly_table[i].month = MonthText(RowAt(at).date)
                              /\ monthly_table[i].page_id = RowAt(at).page_id}) = 1

\* a monthly table of two months, with a total made of two snapshot rows
C12_Witness ==
    /\ tpc = "test_monthly"
    /\ \E i, j \in 1..Len(monthly_table) :
          /\ monthly_table[i].month # monthly_table[j].month
          /\ Cardinality(RowsOfMonth(monthly_table[i].month,
                                     monthly_table[i].page_id)) >= 2

\* C13: no row of a snapshot, of the popular-pages table or of the monthly
\* table has the page id "null", and every row of the popular-pages table and
\* of the monthly table has views > 0.
C13_SchemaInvariants ==
    /\ \A n \in Glob(raw) : \A i \in 1..Len(raw[n]) : raw[n][i].page_id # "null"
    /\ PopularTableBuilt =>
          \A i \in 1..Len(popular_table) :
              popular_table[i].page_id # "null" /\ popular_table[i].views > 0
    /\ MonthlyTableBuilt =>
          \A i \in 1..Len(monthly_table) :
              monthly_table[i].page_id # "null" /\ monthly_table[i].views > 0

\* the rows of the same snapshot that a descending sort by views puts before
\* the row: those of more views, and those of equal views that come earlier
RowsBefore(at) ==
    {j \in 1..Len(raw[files[at[1]]]) :
        \/ raw[files[at[1]]][j].views > RowAt(at).views
        \/ raw[files[at[1]]][j].views = RowAt(at).views /\ j < at[2]}

\* three daily snapshots, each [(pageA, 50), (pageB, 5)]
ScenarioDates == {<<2024, 1, 1>>, <<2024, 1, 2>>, <<2024, 1, 3>>}

ScenarioStore ==
    [n \in {SnapshotName(d) : d \in ScenarioDates} |->
        FetchOutcome("v1", CHOOSE d \in ScenarioDates : SnapshotName(d) = n).rows]

ScenarioMonth == <<"2", "0", "2", "4", "-", "0", "1">>

\* with k = 1 they give the set {pageA}, a popular-pages table of 3 rows, all
\* of pageA, and the monthly totals (2024-01, pageA, 150), (2024-01, pageB, 15)
ScenarioHolds ==
    LET fs == get_raw_parquet_files(ScenarioStore)
        set == build_popular_pages_set(fs, ScenarioStore, 1)
        table == transform_popular_pages(fs, ScenarioStore, set)
        monthly == transform_monthly_views(fs, ScenarioStore)
    IN  /\ Len(fs) = 3
        /\ set = {"pageA"}
        /\ Len(table) = 3
        /\ \A i \in 1..3 : table[i].page_id = "pageA" /\ table[i].views = 50
        /\ {<<monthly[i].month, monthly[i].page_id, monthly[i].views>> :
               i \in 1..Len(monthly)}
              = {<<ScenarioMonth, "pageA", 150>>, <<ScenarioMonth, "pageB", 15>>}
        /\ Len(monthly) = 2

\* C14: build_popular_pages_set returns exactly the page ids of the rows that
\* are among the first k of their snapshot in descending order of views (all
\* its rows when it has fewer than k); three snapshots [(pageA, 50),
\* (pageB, 5)] with k = 1 give {pageA}, three pageA rows and the monthly
\* totals 150 and 15.
C14_PopularSetIsTopK ==
    /\ tpc \notin {"idle", "pass1"} =>
          popular_pages_set =
             {RowAt(at).page_id :
                 at \in {x \in SnapshotRows :
                            Cardinality(RowsBefore(x)) < TOP_K_PER_DAY}}
    /\ ScenarioHolds

\* Pass 1 has cut a snapshot: a page of the snapshots is outside the set, and
\* a page is in the set by the order of two rows of equal views
C14_Witness ==
    /\ tpc = "pass2"
    /\ TOP_K_PER_DAY = 1
    /\ \E at \in SnapshotRows : RowAt(at).page_id \notin popular_pages_set
    /\ \E at \in SnapshotRows :
          /\ at[2] = 1
          /\ raw[files[at[1]]][2].views = RowAt(at).views
          /\ raw[files[at[1]]][2].page_id \notin popular_pages_set

RECURSIVE MemberRows(_)
\* the snapshot rows of the pages of the popular set, the snapshots taken by
\* ascending date (the first n dates) and the rows of one snapshot in their order
MemberRows(n) ==
    IF n = 0 THEN <<>>
    ELSE LET name == SnapshotName(AddDays(FirstDay, n - 1))
             IsMember(row) == row.page_id \in popular_pages_set
         IN  MemberRows(n - 1)
                \o (IF name \in DOMAIN raw THEN SelectSeq(raw[name], IsMember)
                    ELSE <<>>)

\* C15: the table transform_popular_pages returns is exactly the sequence of
\* the snapshot rows whose page id is in the popular set, in ascending order
\* of snapshot date and, within a snapshot, in the order of the snapshot.
C15_ExactlyMemberRows ==
    PopularTableBuilt =>
        /\ popular_table = MemberRows(MaxDay)
        /\ \A i, j \in 1..Len(popular_table) :
              i < j => DateLE(StrpDate(popular_table[i].date),
                              StrpDate(popular_table[j].date))

\* the table has two rows of one snapshot and rows of two months, and a row
\* of the snapshots is left out
C15_Witness ==
    /\ tpc = "test_popular"
    /\ \E i \in 1..Len(popular_table) :
          /\ i + 1 <= Len(popular_table)
          /\ popular_table[i].date = popular_table[i + 1].date
    /\ \E i, j \in 1..Len(popular_table) :
          MonthText(popular_table[i].date) # MonthText(popular_table[j].date)
    /\ \E at \in SnapshotRows : RowAt(at).page_id \notin popular_pages_set

\* C16: a call of process_page_views() that returns gives a table whose
\* columns are date, locale, entity, page_id, views_sum, also when it had
\* nothing to process.
C16_ReturnsTable ==
    asset_returned.how = "returned" =>
        /\ asset_returned.value.type = "Table"
        /\ asset_returned.value.names =
              <<"date", "locale", "entity", "page_id", "views_sum">>

\* the date is done with: it was skipped, or its snapshot and its checkpoint
\* are written
Completed(d) ==
    \/ d \in DOMAIN skipped
    \/ HasSnapshot(d) /\ saved_state = StrfDate(d)

\* C17: within one invocation the dates are attempted in strictly ascending
\* order, none of them twice, and the fetch of a date begins only when the
\* date before it is skipped, or has its snapshot and its checkpoint written.
C17_AscendingSequential ==
    /\ [](\A p \in Procs :
            \A i, j \in 1..Len(attempted[p]) :
                i < j => DateLT(attempted[p][i], attempted[p][j]))
    /\ [][\A p \in Procs :
            (Len(attempted'[p]) = Len(attempted[p]) + 1 /\ Len(attempted[p]) > 0)
            => /\ pc[p] = "loop"
               /\ Completed(attempted[p][Len(attempted[p])])
               /\ attempted'[p][Len(attempted'[p])] =
                     AddDay(attempted[p][Len(attempted[p])])]_vars

\* the third date of an invocation is being fetched, after a skipped date and
\* a saved one
C17_Witness ==
    \E p \in Procs :
        /\ pc[p] = "fetching"
        /\ Len(attempted[p]) = 3
        /\ attempted[p][1] \in DOMAIN skipped
        /\ saved_state = StrfDate(attempted[p][2])

\* what C18 says of the step at which an error propagates out of run()
FailurePropagates ==
    [][\A p \in Procs :
          Returns(p, "raised")
          => /\ attempted[p][Len(attempted[p])] = current_date[p]
             /\ failed_date' = current_date[p]
             /\ saved_state' = saved_state
             /\ HasCheckpoint => HasSnapshot(Checkpoint)
             /\ AfterCheckpoint(current_date[p])]_vars

\* C18, as stated: an error that is not a ValueError propagates out of run(),
\* no later date is attempted, the checkpoint stays where it is, and the
\* failed date is the first date of the range of the next invocation.
C18_FailedDateRetriedFirst ==
    /\ FailurePropagates
    /\ [][\A p \in Procs :
            (pc[p] = "idle" /\ pc'[p] = "loop" /\ failed_date # NoDate)
            => current_date'[p] = failed_date]_vars

\* C18, amended: an error that is not a ValueError propagates out of run(), no
\* later date is attempted, the checkpoint stays where it is, and the failed
\* date is in the range of the next invocation, where only dates that were
\* skipped on a ValueError come before it.
C18_FailedDateRetried ==
    /\ FailurePropagates
    /\ [][\A p \in Procs :
            (pc[p] = "idle" /\ pc'[p] = "loop" /\ failed_date # NoDate)
            => /\ DateLE(start_date'[p], failed_date)
               /\ DateLE(failed_date, end_date'[p])
               /\ \A e \in DatesBetween(start_date'[p], failed_date) :
                      e = failed_date \/ e \in DOMAIN skipped]_vars

\* an invocation has raised on the date after a skipped date, itself after
\* the checkpoint
C18_Witness ==
    \E p \in Procs :
        /\ pc[p] = "idle"
        /\ result[p] = "raised"
        /\ HasCheckpoint
        /\ HasSnapshot(Checkpoint)
        /\ failed_date = AddDay(AddDay(Checkpoint))
        /\ AddDay(Checkpoint) \in DOMAIN skipped

\* C19: run() returns True only from the budget check at the top of an
\* iteration, and then every date attempted in this invocation was skipped or
\* has both its snapshot and a checkpoint that has reached it: no date is
\* left with a snapshot written and the checkpoint not advanced.
C19_TrueOnlyAtBudgetCheck ==
    [][\A p \in Procs :
          Returns(p, "True")
          => /\ pc[p] = "loop"
             /\ BudgetExceeded(p)
             /\ report'[p] = "Time budget exhausted"
             /\ crash_date' = NoDate
             /\ raw' = raw /\ saved_state' = saved_state
             /\ \A i \in 1..Len(attempted[p]) :
                   \/ attempted[p][i] \in DOMAIN skipped
                   \/ /\ HasSnapshot(attempted[p][i])
                      /\ ~ AfterCheckpoint(attempted[p][i])]_vars

\* an invocation has returned True; the checkpoint date has its snapshot and
\* the date after it has none
C19_Witness ==
    \E p \in Procs :
        /\ pc[p] = "idle"
        /\ result[p] = "True"
        /\ HasCheckpoint
        /\ HasSnapshot(Checkpoint)
        /\ ~ HasSnapshot(AddDay(Checkpoint))
        /\ DateLT(AddDay(Checkpoint), today)

\* the months of the snapshots the transform run read: those of the monthly
\* partitions of the run
MonthsOfRun == {MonthText(RowAt(at).date) : at \in SnapshotRows}

PopularSaved == PopularName \in DOMAIN raw

\* C20: an output is saved only when its validation has passed, and once a
\* transform run is over, successful or failed, either the popular-pages
\* output and every monthly partition of the run are saved, or none of them.
C20_NoPartialOutputs ==
    /\ [][/\ (PopularName \in DOMAIN raw' /\ raw' # raw /\ tpc = "test_popular")
             => test_popular_pages(popular_table)
          /\ (raw' # raw /\ tpc = "save_monthly")
             => test_monthly_views(monthly_table)]_vars
    /\ [](tpc \in {"done", "failed"} =>
            \/ /\ PopularSaved
               /\ \A m \in MonthsOfRun : MonthlyName(m) \in DOMAIN raw
            \/ /\ ~ PopularSaved
               /\ \A m \in MonthsOfRun : MonthlyName(m) \notin DOMAIN raw)

\* the store as the ingest loop wrote it, and its files in the order of run()
WrittenStore == Ingested(upstream, MaxDay)

WrittenFiles == get_raw_parquet_files(WrittenStore)

\* the totals of a monthly table, as (month, page id, views)
Totals(table) ==
    {<<table[i].month, table[i].page_id, table[i].views>> : i \in 1..Len(table)}

\* the last of a set of snapshot rows in scan order: the order of the files,
\* then the order of the rows of a file
LastScanned(ats) ==
    CHOOSE at \in ats :
        \A b \in ats : b[1] < at[1] \/ (b[1] = at[1] /\ b[2] <= at[2])

\* the entity transform_monthly_views gives a key over the written store
WrittenEntity(month, page_id) ==
    LET table == transform_monthly_views(WrittenFiles, WrittenStore)
        i == CHOOSE j \in 1..Len(table) :
                 table[j].month = month /\ table[j].page_id = page_id
    IN  table[i].entity

\* C21: whatever the order of the snapshots and of their rows, the monthly
\* table has one row per (month, page id) with the same summed views, and
\* the entity of the row is that of the last snapshot row of the key in the
\* order in which the rows were scanned.
C21_SumsOrderIndependent ==
    tpc = "applied" =>
        /\ Totals(monthly_table) =
              Totals(transform_monthly_views(WrittenFiles, WrittenStore))
        /\ Cardinality(Totals(monthly_table)) = Len(monthly_table)
        /\ \A i \in 1..Len(monthly_table) :
              monthly_table[i].entity =
                 RowAt(LastScanned(RowsOfMonth(monthly_table[i].month,
                                               monthly_table[i].page_id))).entity

\* the snapshots were scanned in another order, and a key has another entity
\* than over the written store
C21_Witness ==
    /\ tpc = "applied"
    /\ files # WrittenFiles
    /\ \E i \in 1..Len(monthly_table) :
          monthly_table[i].entity #
             WrittenEntity(monthly_table[i].month, monthly_table[i].page_id)

\* C22: whatever the order of the snapshot list, build_popular_pages_set
\* returns the set it returns for the sorted list, and the union of the sets
\* of the parts of any split of the list in up to three parts is that set.
C22_PopularSetOrderIndependent ==
    tpc = "applied" =>
        /\ popular_pages_set =
              build_popular_pages_set(get_raw_parquet_files(raw), raw, TOP_K_PER_DAY)
        /\ \A i, j \in 0..Len(files) :
              i <= j =>
                 build_popular_pages_set(SubSeq(files, 1, i), raw, TOP_K_PER_DAY)
                    \cup build_popular_pages_set(SubSeq(files, i + 1, j), raw,
                                                 TOP_K_PER_DAY)
                    \cup build_popular_pages_set(SubSeq(files, j + 1, Len(files)),
                                                 raw, TOP_K_PER_DAY)
                 = popular_pages_set

\* the list was given in another order than the sorted one, and two parts of
\* it have different sets
C22_Witness ==
    /\ tpc = "applied"
    /\ files # get_raw_parquet_files(raw)
    /\ \E i \in 1..(Len(files) - 1) :
          build_popular_pages_set(SubSeq(files, 1, i), raw, TOP_K_PER_DAY)
             # build_popular_pages_set(SubSeq(files, i + 1, Len(files)), raw,
                                        TOP_K_PER_DAY)

\* C23: no step of a transform run (listing, Pass 1, Pass 2, the monthly
\* aggregation, the tests and the saving of the outputs) removes or changes
\* a daily snapshot or changes the checkpoint, and the list returned by
\* get_raw_parquet_files is the same after the step as before it.
C23_TransformLeavesSnapshots ==
    [][/\ \A n \in Glob(raw) : n \in DOMAIN raw' /\ raw'[n] = raw[n]
       /\ saved_state' = saved_state
       /\ get_raw_parquet_files(raw') = get_raw_parquet_files(raw)]_vars

\* a transform run has saved its outputs in the store that holds the daily
\* snapshots and the checkpoint of the ingest loop
C23_Witness ==
    /\ tpc = "done"
    /\ PopularSaved
    /\ \E m \in MonthsOfRun : MonthlyName(m) \in DOMAIN raw
    /\ HasCheckpoint
    /\ files # <<>>
    /\ get_raw_parquet_files(raw) = files

\* C24: an invocation that finds budget left at its first check attempts
\* the first date of its range; and when every date has a dump with rows and
\* no error propagates, invoking run() again whenever it returns True leads
\* to a state where run() has returned False and the checkpoint is the last
\* date of the range, the day before the current one.
C24_ProgressUnderReinvocation ==
    /\ [][\A p \in Procs :
            (/\ pc[p] = "loop"
             /\ attempted[p] = <<>>
             /\ ~ BudgetExceeded(p)
             /\ pc'[p] # pc[p])
            => attempted'[p] = <<start_date[p]>>]_vars
    /\ <>(\A p \in Procs :
            /\ pc[p] = "idle"
            /\ result[p] = "False"
            /\ HasCheckpoint
            /\ Checkpoint = EndDateAt(today))

\* an invocation that followed a return of True (it read a checkpoint) has
\* saved the last date of the range and is about to return False
C24_Witness ==
    \E p \in Procs :
        /\ pc[p] = "loop"
        /\ last_processed_date[p] # NoState
        /\ ~ LoopCondition(p)
        /\ HasCheckpoint
        /\ Checkpoint = EndDateAt(today)
        /\ Len(attempted[p]) > 0

\* C25: while two invocations of run() that read the same checkpoint at
\* their start are both running, every write of the checkpoint moves it to
\* a later date, and the date of the checkpoint always has a snapshot.
C25_CheckpointNeverRegresses ==
    /\ [][(/\ \A p \in Runners : pc[p] # "idle"
           /\ \A p, q \in Runners : last_processed_date[p] = last_processed_date[q]
           /\ saved_state' # saved_state)
          => (saved_state = NoState
                 \/ DateLT(StrpDate(saved_state), StrpDate(saved_state')))]_vars
    /\ [](HasCheckpoint => HasSnapshot(Checkpoint))

====
